---- MODULE Spec2Model ----
(***************************************************************************)
(* Model of the instance manager of backend/src/instance_manager.rs: the   *)
(* registry of instances, the client table, the mutex around both, and     *)
(* the three public operations new_instance, handle_message and subscribe, *)
(* run by concurrent callers.  The managed instance type is the            *)
(* TestInstance of the module's tests (one i64 value per instance); where  *)
(* the order of a handler's replies and broadcasts matters, it is any      *)
(* Instance.  The Timer of backend/src/timer.rs and the action codes of    *)
(* lib/src/export.rs are modelled next to it, each with a specification of *)
(* its own.                                                                *)
(***************************************************************************)
EXTENDS Integers, Sequences, FiniteSets, TLC

(***************************************************************************)
(* Bounds of the model.                                                    *)
(***************************************************************************)
\* Number of distinct connections (ws::Sender tokens 1..MaxSenders).
MaxSenders == 2
\* Number of codes generate_key draws from (9000 in the code, line 252).
KeySpace == 2
\* The number of values of a u8.
ByteRange == 256
\* generate_key adds 1000 to the drawn code.
KeyBase == 1000
\* The number of codes generate_key draws from: gen_range(0, 9000).
KeyRange == 9000
\* Nested calls of generate_unique_key the stack of a thread has room for.
MaxStack == 2
\* The latest timestamp a timer is called with, in seconds.
MaxTime == 3
\* The largest time budget of a player, in seconds.
MaxBudget == 2
\* Calls of Context::reply and Context::broadcast one handler run makes.
MaxQueue == 2

\* The threads of the transport layer that call into the Manager.
Callers == {"c1", "c2"}
Senders == 1..MaxSenders
NoCaller == "none"

(***************************************************************************)
(* Keys are strings.  format!("{}", n) writes n in decimal.                *)
(***************************************************************************)
Digit(d) == <<"0", "1", "2", "3", "4", "5", "6", "7", "8", "9">>[d + 1]

RECURSIVE Format(_)
Format(n) == IF n < 10 THEN Digit(n) ELSE Format(n \div 10) \o Digit(n % 10)

\* Mutant of generate_key: the drawn code is formatted as it is.
generate_key_unshifted(code) == Format(code)

\* fn generate_key(): the drawn code, plus 1000, formatted.
generate_key(code) == Format(code + KeyBase)

Codes == 0..(KeySpace - 1)
GeneratedKeys == {generate_key(c) : c \in Codes}
\* Keys a caller may address: every key the generator can produce, and one
\* it never produces ("Game1", the key of the first test).
MsgKeys == GeneratedKeys \cup {"Game1"}
\* Values of an instance: 0 (new_with_key) and 42 (the tests' Set messages);
\* the manager never looks at a value.
Values == {0, 42}

(***************************************************************************)
(* Messages.  TestClientMsg is Set{key, value} or Get{key}; TestServerMsg  *)
(* is IsNow{key, value} or Oups{error}.  Unused fields hold "" and 0.      *)
(***************************************************************************)
Set(key, value) == [type |-> "Set", key |-> key, value |-> value]
Get(key) == [type |-> "Get", key |-> key, value |-> 0]
NoMsg == [type |-> "none", key |-> "", value |-> 0]
ClientMessages ==
    {Set(k, v) : k \in MsgKeys, v \in Values} \cup {Get(k) : k \in MsgKeys}

\* impl ProvidesKey for TestClientMsg
message_key(message) == message.key

\* impl ClientMessage for TestClientMsg: subscribe(key) is Get{key}.
ClientMessage_subscribe(key) == Get(key)

IsNow(key, value) == [type |-> "IsNow", key |-> key, value |-> value, error |-> ""]
Oups(error) == [type |-> "Oups", key |-> "", value |-> 0, error |-> error]

\* impl ServerMessage for TestServerMsg
ServerMessage_error(message) == Oups(message)

\* SyncManager::error_no_instance
error_no_instance(key) ==
    ServerMessage_error("There is no instance with key " \o key \o ".")

\* The error of a repeated subscription (subscribe, lines 213-216).
error_already_connected(key) ==
    ServerMessage_error("Client is already connected to " \o key \o ".")

(***************************************************************************)
(* Context: the two queues a handler writes to.                            *)
(***************************************************************************)
Context_new == [reply_queue |-> <<>>, broadcast_queue |-> <<>>]
\* Mutant of Context_reply: the message goes to the front of the queue.
Context_reply_in_front(ctx, message) ==
    [ctx EXCEPT !.reply_queue = <<message>> \o @]

Context_reply(ctx, message) ==
    [ctx EXCEPT !.reply_queue = Append(@, message)]
Context_broadcast(ctx, message) ==
    [ctx EXCEPT !.broadcast_queue = Append(@, message)]

\* One call a handler makes on its Context.
Reply(message) == [call |-> "reply", message |-> message]
Broadcast(message) == [call |-> "broadcast", message |-> message]

(***************************************************************************)
(* TestInstance.                                                           *)
(***************************************************************************)
\* Mutant of new_with_key: the instance does not keep the key.
new_without_key(key) == [key |-> "", value |-> 0]

new_with_key(key) == [key |-> key, value |-> 0]
Instance_key(inst) == inst.key

\* TestInstance::handle_message: the instance and the context it leaves,
\* and the calls it made on the context.
Instance_handle_message(inst, message, ctx) ==
    IF message.type = "Set"
    THEN [instance |-> [inst EXCEPT !.value = message.value],
          ctx |-> Context_broadcast(ctx, IsNow(message.key, message.value)),
          script |-> <<Broadcast(IsNow(message.key, message.value))>>]
    ELSE [instance |-> inst,
          ctx |-> Context_reply(ctx, IsNow(message.key, inst.value)),
          script |-> <<Reply(IsNow(message.key, inst.value))>>]

(***************************************************************************)
(* Any instance.  The manager is generic in the Instance it manages: a     *)
(* handler is given the message and a Context and may call reply and       *)
(* broadcast on it any number of times in any order.  calls is the order   *)
(* of the calls one handler run makes; the i-th call enqueues IsNow with   *)
(* value i, so that every enqueued message is told from the others.        *)
(***************************************************************************)
Scripts == UNION {[1..n -> {"reply", "broadcast"}] : n \in 0..MaxQueue}

RECURSIVE AnyInstance_handle_message(_, _, _, _)
AnyInstance_handle_message(inst, message, ctx, kinds) ==
    IF kinds = <<>>
    THEN [instance |-> inst, ctx |-> ctx, script |-> <<>>]
    ELSE LET n == Len(kinds)
             before == AnyInstance_handle_message(inst, message, ctx,
                                                  SubSeq(kinds, 1, n - 1))
             m == IsNow(message.key, n)
         IN  IF kinds[n] = "reply"
             THEN [before EXCEPT !.ctx = Context_reply(@, m),
                                 !.script = Append(@, Reply(m))]
             ELSE [before EXCEPT !.ctx = Context_broadcast(@, m),
                                 !.script = Append(@, Broadcast(m))]

(***************************************************************************)
(* Registry and client table entries; maps as functions on their keys.     *)
(***************************************************************************)
\* Mutant of InstanceMetadata_new: every connection is a client of the new
\* instance.
InstanceMetadata_for_all(instance) == [instance |-> instance, clients |-> Senders]

InstanceMetadata_new(instance) == [instance |-> instance, clients |-> {}]
ClientData_new == [connected_to |-> {}]

EmptyMap == [k \in {} |-> 0]
contains_key(map, k) == k \in DOMAIN map
insert(map, k, v) == [x \in DOMAIN map \cup {k} |-> IF x = k THEN v ELSE map[x]]

(***************************************************************************)
(* The timer of backend/src/timer.rs.  Timestamps and durations are whole  *)
(* numbers of seconds; a duration may be negative.                         *)
(***************************************************************************)
PlayerColors == {"White", "Black"}
Times == 0..MaxTime
Budgets == 0..MaxBudget

\* enum TimerState
Paused == "Paused"
Running == "Running"
Timeout(player) == "Timeout(" \o player \o ")"

TimerConfig(white, black) ==
    [time_budget_white |-> white, time_budget_black |-> black]

\* The configuration of the tests: five and four minutes.
test_timer_config == TimerConfig(5 * 60, 4 * 60)

\* impl From<TimerConfig> for Timer; now is what Utc::now() returns.
Timer_from(config, now) ==
    [last_timestamp |-> now,
     time_left_white |-> config.time_budget_white,
     time_left_black |-> config.time_budget_black,
     timer_state |-> Paused,
     config |-> config]

\* started_at while no start has set the timer running; after it,
\* started_at is <<start_time>>.
NotStarted == <<>>

\* What is remembered of the last call on the timer.
FromCall(config, now) == [name |-> "from", config |-> config, now |-> now]
StartCall(before, start_time) ==
    [name |-> "start", before |-> before, start_time |-> start_time]
UseTimeCall(before, player, now, result) ==
    [name |-> "use_time", before |-> before, player |-> player, now |-> now,
     result |-> result]

(***************************************************************************)
(* The action codes of lib/src/export.rs.  A code is a u8; a board         *)
(* position is the u8 of BoardPosition.                                    *)
(***************************************************************************)
ActionCodes == 0..(ByteRange - 1)

\* crate::PacoAction, as far as export.rs constructs it.
Lift(position) == [kind |-> "Lift", position |-> position]
Place(position) == [kind |-> "Place", position |-> position]
NoAction == [kind |-> "none", position |-> 0]

\* How a call of apply_action_bang ends.
Returns(value) == [kind |-> "return", value |-> value]
Panics == [kind |-> "panic", value |-> 0]
NoResult == [kind |-> "none", value |-> 0]

\* a - b on u8 in a build without overflow checks.
wrapping_sub(a, b) == (a - b + ByteRange) % ByteRange

\* The code legal_actions writes for a move on position p.
legal_actions_Lift(p) == (1 + p) % ByteRange
legal_actions_Place(p) == (1 + p + 64) % ByteRange

(***************************************************************************)
(* State.                                                                  *)
(***************************************************************************)
VARIABLES
    instances,  \* SyncManager.instances: key -> InstanceMetadata
    clients,    \* SyncManager.clients: Sender -> ClientData
    holder,     \* the caller that holds the Mutex, or NoCaller
    poisoned,   \* the Mutex is poisoned: a holder panicked
    alive,      \* alive[s]: Sender s accepts a send
    pc,         \* pc[c]: where caller c is in its operation
    op,         \* op[c]: the operation caller c runs, with its arguments
    key,        \* key[c]: the local rand_string / key of new_instance
    context,    \* context[c]: the Context of handle_message_for_instance
    todo,       \* todo[c]: clients the current broadcast still goes to
    routed,     \* routed[c]: the key of the instance being routed to
    pre,        \* pre[c]: registry and client table when c took the lock
    sent,       \* sent[c][s]: what c's operation delivered to s, in order
    calls,      \* calls[c]: the messages c's operation gave to a handler
    returned,   \* returned[k]: how many new_instance calls returned key k
    accepted,   \* accepted[s][k]: how many subscribe(k, s) calls were accepted
    last,       \* last[s]: the caller whose running operation delivered
                \* to s most recently, if any
    depth,      \* depth[c]: recursive calls generate_unique_key made for c
    script,     \* script[c]: the Context calls the handler made for c, in order
    written,    \* written[k]: the value of the last Set routed to instance k
    timer,      \* a Timer (timer.rs)
    tcall,      \* the last call on the timer: arguments, timer before, result
    started_at, \* the start_time of the start that set the timer running
    called,     \* the action code of the last apply_action_bang call
    executed,   \* the action that call had the board execute, if any
    result      \* how that call ended: the value returned, or a panic

timer_vars == <<timer, tcall, started_at>>
export_vars == <<called, executed, result>>
manager_vars == <<instances, clients, holder, poisoned, alive, pc, op, key,
                  context, todo, routed, pre, sent, calls, returned, accepted,
                  last, depth, script, written>>
vars == <<manager_vars, timer_vars, export_vars>>

\* No operation: no message, no key, and 0 for the sender (no connection).
NoOp == [name |-> "none", message |-> NoMsg, key |-> "", sender |-> 0]
NoPre == [instances |-> EmptyMap, clients |-> EmptyMap]
NoSent == [s \in Senders |-> <<>>]

\* A registry with one new instance for each of keys.
Registry(keys) == [k \in keys |-> InstanceMetadata_new(new_with_key(k))]

\* A manager nobody is calling, after one new_instance call returned each
\* of keys and before any subscription.
ManagerWith(keys) ==
    /\ instances = Registry(keys)
    /\ clients = EmptyMap
    /\ holder = NoCaller
    /\ poisoned = FALSE
    /\ alive = [s \in Senders |-> TRUE]
    /\ pc = [c \in Callers |-> "idle"]
    /\ op = [c \in Callers |-> NoOp]
    /\ key = [c \in Callers |-> ""]
    /\ context = [c \in Callers |-> Context_new]
    /\ todo = [c \in Callers |-> {}]
    /\ routed = [c \in Callers |-> ""]
    /\ pre = [c \in Callers |-> NoPre]
    /\ sent = [c \in Callers |-> NoSent]
    /\ calls = [c \in Callers |-> <<>>]
    /\ returned = [k \in GeneratedKeys |-> IF k \in keys THEN 1 ELSE 0]
    /\ accepted = [s \in Senders |-> [k \in GeneratedKeys |-> 0]]
    /\ last = [s \in Senders |-> NoCaller]
    /\ depth = [c \in Callers |-> 0]
    /\ script = [c \in Callers |-> <<>>]
    /\ written = [k \in GeneratedKeys |-> 0]

\* The timer of the tests' configuration, not started.
TimerIdle ==
    /\ timer = Timer_from(test_timer_config, 0)
    /\ tcall = FromCall(test_timer_config, 0)
    /\ started_at = NotStarted

\* No call of apply_action_bang yet.
ExportIdle ==
    /\ called = 0
    /\ executed = NoAction
    /\ result = NoResult

\* SyncManager::new and Manager::new: empty maps, an unlocked Mutex.  The
\* timer is the one of the tests' configuration and is left alone.
Init ==
    /\ ManagerWith({})
    /\ TimerIdle
    /\ ExportIdle

(***************************************************************************)
(* The lock.  lock!(self) is self.0.lock().unwrap(): it blocks while       *)
(* another caller holds the Mutex and panics when the Mutex is poisoned.   *)
(* The guard lives until the operation called on it returns.               *)
(***************************************************************************)
\* Mutant of lock_free: the operations run without the Mutex.
lock_ignored(c) == TRUE

\* Mutex::lock can return the guard to caller c.
lock_free(c) == holder = NoCaller

\* Caller c enters operation o at program point start, holding the lock.
Enter(c, o, start) ==
    /\ pc[c] = "idle"
    /\ ~poisoned
    /\ lock_free(c)
    /\ holder' = c
    /\ pc' = [pc EXCEPT ![c] = start]
    /\ op' = [op EXCEPT ![c] = o]
    /\ pre' = [pre EXCEPT ![c] = [instances |-> instances, clients |-> clients]]
    /\ UNCHANGED <<instances, clients, poisoned, alive, key, context, todo,
                   routed, sent, calls, returned, last, accepted, depth,
                   script, written, timer_vars, export_vars>>

\* Manager::new_instance
Call_new_instance(c) ==
    Enter(c, [NoOp EXCEPT !.name = "new_instance"], "generate")

\* The body of generate_unique_key once rand_string is drawn.  A key the
\* map contains makes the function call itself (line 245): rand_string is
\* dropped only after the inner call returns, so every retry is one more
\* frame on the caller's stack.  The stack holds MaxStack nested calls; one
\* more overflows it, and the runtime aborts the process with the Mutex
\* still held.  A free key is returned through all the frames; depth[c]
\* keeps the number of retries until the operation returns.
retry_or_return(c, rand_string) ==
    IF contains_key(instances, rand_string)
    THEN /\ IF depth[c] < MaxStack
            THEN /\ depth' = [depth EXCEPT ![c] = @ + 1]
                 /\ UNCHANGED pc
            ELSE /\ pc' = [pc EXCEPT ![c] = "aborted"]
                 /\ UNCHANGED depth
         /\ UNCHANGED key
    ELSE /\ key' = [key EXCEPT ![c] = rand_string]
         /\ pc' = [pc EXCEPT ![c] = "insert"]
         /\ UNCHANGED depth

\* Mutant of generate_unique_key: the drawn key is returned without asking
\* the map.
generate_unique_key_unchecked(c) ==
    /\ pc[c] = "generate"
    /\ \E code \in Codes :
          /\ key' = [key EXCEPT ![c] = generate_key(code)]
          /\ pc' = [pc EXCEPT ![c] = "insert"]
    /\ UNCHANGED <<instances, clients, holder, poisoned, alive, op, context,
                   todo, routed, pre, sent, calls, returned, accepted, last,
                   depth, script, written, timer_vars, export_vars>>

\* generate_unique_key: one draw of generate_key, from the codes the model
\* is bounded to.
generate_unique_key(c) ==
    /\ pc[c] = "generate"
    /\ \E code \in Codes : retry_or_return(c, generate_key(code))
    /\ UNCHANGED <<instances, clients, holder, poisoned, alive, op, context,
                   todo, routed, pre, sent, calls, returned, last, accepted,
                   script, written, timer_vars, export_vars>>

\* SyncManager::new_instance after the key is generated: insert the entry.
new_instance(c) ==
    /\ pc[c] = "insert"
    /\ instances' = insert(instances, key[c],
                           InstanceMetadata_new(new_with_key(key[c])))
    /\ pc' = [pc EXCEPT ![c] = "return"]
    /\ UNCHANGED <<clients, holder, poisoned, alive, op, key, context, todo,
                   routed, pre, sent, calls, returned, last, accepted, depth,
                   script, written, timer_vars, export_vars>>

\* Manager::handle_message
Call_handle_message(c, message, sender) ==
    Enter(c, [NoOp EXCEPT !.name = "handle_message", !.message = message,
                          !.key = message_key(message), !.sender = sender],
          "route")

\* Manager::subscribe
Call_subscribe(c, k, sender) ==
    Enter(c, [NoOp EXCEPT !.name = "subscribe", !.key = k, !.sender = sender],
          "subscribe")

\* SyncManager::send_message, the Ok branch: the message is in the
\* connection's channel.
send_message(c, to, message) ==
    /\ alive[to]
    /\ sent' = [sent EXCEPT ![c][to] = Append(@, message)]
    /\ last' = [last EXCEPT ![to] = c]

\* Mutant of handle_message: an unknown key is dropped without a reply.
handle_message_silent(c) ==
    /\ pc[c] = "route"
    /\ LET k == message_key(op[c].message)
       IN  IF contains_key(instances, k)
           THEN /\ routed' = [routed EXCEPT ![c] = k]
                /\ pc' = [pc EXCEPT ![c] = "handle"]
           ELSE /\ pc' = [pc EXCEPT ![c] = "return"]
                /\ UNCHANGED routed
    /\ UNCHANGED <<instances, clients, holder, poisoned, alive, op, key,
                   context, todo, pre, sent, calls, returned, accepted, last,
                   depth, script, written, timer_vars, export_vars>>

\* Mutant of handle_message: a routed message subscribes its sender.
handle_message_subscribing(c) ==
    /\ pc[c] = "route"
    /\ LET k == message_key(op[c].message)
       IN  IF contains_key(instances, k)
           THEN /\ routed' = [routed EXCEPT ![c] = k]
                /\ instances' = [instances EXCEPT ![k].clients =
                                     @ \cup {op[c].sender}]
                /\ pc' = [pc EXCEPT ![c] = "handle"]
           ELSE /\ pc' = [pc EXCEPT ![c] = "no_instance"]
                /\ UNCHANGED <<routed, instances>>
    /\ UNCHANGED <<clients, holder, poisoned, alive, op, key, context, todo,
                   pre, sent, calls, returned, last, accepted, depth, script,
                   written, timer_vars, export_vars>>

\* SyncManager::handle_message: look the key up, route or report.
handle_message(c) ==
    /\ pc[c] = "route"
    /\ LET k == message_key(op[c].message)
       IN  IF contains_key(instances, k)
           THEN /\ routed' = [routed EXCEPT ![c] = k]
                /\ pc' = [pc EXCEPT ![c] = "handle"]
           ELSE /\ pc' = [pc EXCEPT ![c] = "no_instance"]
                /\ UNCHANGED routed
    /\ UNCHANGED <<instances, clients, holder, poisoned, alive, op, key,
                   context, todo, pre, sent, calls, returned, last, accepted,
                   depth, script, written, timer_vars, export_vars>>

\* The else branches of handle_message and subscribe: one error reply.
send_no_instance(c) ==
    /\ pc[c] = "no_instance"
    /\ send_message(c, op[c].sender, error_no_instance(op[c].key))
    /\ pc' = [pc EXCEPT ![c] = "return"]
    /\ UNCHANGED <<instances, clients, holder, poisoned, alive, op, key,
                   context, todo, routed, pre, calls, returned, accepted,
                   depth, script, written, timer_vars, export_vars>>

\* Mutant of client_already_connected: the result of insert is not looked
\* at, no subscription counts as a repeated one.
client_never_connected(table, sender, k) == FALSE

\* !client.connected_to.insert(key): the set already held the key.
client_already_connected(table, sender, k) ==
    contains_key(table, sender) /\ k \in table[sender].connected_to

\* Mutant of subscribe: the client table is updated before the registry
\* is asked whether the instance exists.
subscribe_tracks_first(c) ==
    /\ pc[c] = "subscribe"
    /\ LET k == op[c].key
           sender == op[c].sender
       IN  /\ clients' =
                 IF contains_key(clients, sender)
                 THEN [clients EXCEPT ![sender].connected_to = @ \cup {k}]
                 ELSE insert(clients, sender,
                             [ClientData_new EXCEPT !.connected_to = {k}])
           /\ IF contains_key(instances, k)
              THEN /\ routed' = [routed EXCEPT ![c] = k]
                   /\ pc' = [pc EXCEPT ![c] =
                                IF client_already_connected(clients, sender, k)
                                THEN "already_connected" ELSE "connect"]
              ELSE /\ pc' = [pc EXCEPT ![c] = "no_instance"]
                   /\ UNCHANGED routed
    /\ UNCHANGED <<instances, holder, poisoned, alive, op, key, context,
                   todo, pre, sent, calls, returned, accepted, last, depth,
                   script, written, timer_vars, export_vars>>

\* SyncManager::subscribe up to the client table update (lines 196-208).
subscribe(c) ==
    /\ pc[c] = "subscribe"
    /\ LET k == op[c].key
           sender == op[c].sender
       IN  IF contains_key(instances, k)
           THEN /\ clients' =
                      IF contains_key(clients, sender)
                      THEN [clients EXCEPT ![sender].connected_to = @ \cup {k}]
                      ELSE insert(clients, sender,
                                  [ClientData_new EXCEPT !.connected_to = {k}])
                /\ routed' = [routed EXCEPT ![c] = k]
                /\ pc' = [pc EXCEPT ![c] =
                             IF client_already_connected(clients, sender, k)
                             THEN "already_connected" ELSE "connect"]
           ELSE /\ pc' = [pc EXCEPT ![c] = "no_instance"]
                /\ UNCHANGED <<clients, routed>>
    /\ UNCHANGED <<instances, holder, poisoned, alive, op, key, context,
                   todo, pre, sent, calls, returned, last, accepted, depth,
                   script, written, timer_vars, export_vars>>

\* Mutant of send_already_connected: the repeated subscription also ends
\* the existing one.
send_already_connected_and_drop(c) ==
    /\ pc[c] = "already_connected"
    /\ send_message(c, op[c].sender, error_already_connected(op[c].key))
    /\ instances' = [instances EXCEPT ![routed[c]].clients = @ \ {op[c].sender}]
    /\ pc' = [pc EXCEPT ![c] = "return"]
    /\ UNCHANGED <<clients, holder, poisoned, alive, op, key, context, todo,
                   routed, pre, calls, returned, accepted, depth, script,
                   written, timer_vars, export_vars>>

\* subscribe, client_already_connected: the error reply (lines 210-217).
send_already_connected(c) ==
    /\ pc[c] = "already_connected"
    /\ send_message(c, op[c].sender, error_already_connected(op[c].key))
    /\ pc' = [pc EXCEPT ![c] = "return"]
    /\ UNCHANGED <<instances, clients, holder, poisoned, alive, op, key,
                   context, todo, routed, pre, calls, returned, accepted,
                   depth, script, written, timer_vars, export_vars>>

\* Mutant of subscribe_insert: the sender is not put into the instance's
\* subscriber set.
subscribe_without_insert(c) ==
    /\ pc[c] = "connect"
    /\ accepted' = [accepted EXCEPT ![op[c].sender][routed[c]] = @ + 1]
    /\ pc' = [pc EXCEPT ![c] = "handle"]
    /\ UNCHANGED <<instances, clients, holder, poisoned, alive, op, key,
                   context, todo, routed, pre, sent, calls, returned, last,
                   depth, script, written, timer_vars, export_vars>>

\* subscribe, not yet connected: instance.clients.insert (line 219).
subscribe_insert(c) ==
    /\ pc[c] = "connect"
    /\ instances' = [instances EXCEPT ![routed[c]].clients = @ \cup {op[c].sender}]
    /\ accepted' = [accepted EXCEPT ![op[c].sender][routed[c]] = @ + 1]
    /\ pc' = [pc EXCEPT ![c] = "handle"]
    /\ UNCHANGED <<clients, holder, poisoned, alive, op, key, context, todo,
                   routed, pre, sent, calls, returned, last, depth, script,
                   written, timer_vars, export_vars>>

\* The message handle_message_for_instance is called with.
routed_message(o) ==
    IF o.name = "subscribe" THEN ClientMessage_subscribe(o.key) ELSE o.message

\* Where handle_message_for_instance goes on with queues ctx and the
\* instance's clients: the reply loop, the broadcast loop (which sends
\* nothing when there is no client) or its end.
drain_pc(ctx, instance_clients) ==
    IF ctx.reply_queue # <<>> THEN "reply"
    ELSE IF ctx.broadcast_queue # <<>> /\ instance_clients # {} THEN "broadcast"
    ELSE "return"

\* Mutant of broadcast_recipients: a broadcast goes to every connection.
broadcast_to_every_sender(ctx, instance_clients) ==
    IF ctx.reply_queue = <<>> /\ ctx.broadcast_queue # <<>>
    THEN Senders ELSE {}

\* The clients the inner loop starts with: for client in &instance.clients.
broadcast_recipients(ctx, instance_clients) ==
    IF ctx.reply_queue = <<>> /\ ctx.broadcast_queue # <<>>
    THEN instance_clients ELSE {}

\* Mutant of handler_returns: the handler ran on a copy of the instance,
\* the registry keeps the instance as it was.
handler_returns_on_a_copy(c, message, res) ==
    LET instance_clients == instances[routed[c]].clients
    IN  /\ instances' = instances
        /\ context' = [context EXCEPT ![c] = res.ctx]
        /\ script' = [script EXCEPT ![c] = res.script]
        /\ calls' = [calls EXCEPT ![c] =
                        Append(@, [key |-> routed[c], message |-> message])]
        /\ pc' = [pc EXCEPT ![c] = drain_pc(res.ctx, instance_clients)]
        /\ todo' = [todo EXCEPT ![c] =
                       broadcast_recipients(res.ctx, instance_clients)]

\* handle_message_for_instance once the handler has returned res: the
\* instance is as the handler left it, the queues are about to be drained.
handler_returns(c, message, res) ==
    LET instance_clients == instances[routed[c]].clients
    IN  /\ instances' = [instances EXCEPT ![routed[c]].instance = res.instance]
        /\ context' = [context EXCEPT ![c] = res.ctx]
        /\ script' = [script EXCEPT ![c] = res.script]
        /\ calls' = [calls EXCEPT ![c] =
                        Append(@, [key |-> routed[c], message |-> message])]
        /\ pc' = [pc EXCEPT ![c] = drain_pc(res.ctx, instance_clients)]
        /\ todo' = [todo EXCEPT ![c] =
                       broadcast_recipients(res.ctx, instance_clients)]

\* handle_message_for_instance: a new Context, the instance's handler.
handle_message_for_instance(c) ==
    /\ pc[c] = "handle"
    /\ LET message == routed_message(op[c])
       IN  handler_returns(c, message,
               Instance_handle_message(instances[routed[c]].instance,
                                       message, Context_new))
    /\ written' = IF routed_message(op[c]).type = "Set"
                  THEN [written EXCEPT ![routed[c]] = routed_message(op[c]).value]
                  ELSE written
    /\ UNCHANGED <<clients, holder, poisoned, alive, op, key, routed, pre,
                   sent, returned, last, accepted, depth, timer_vars,
                   export_vars>>

\* for msg in context.reply_queue: send it to the sender.
send_reply(c) ==
    /\ pc[c] = "reply"
    /\ send_message(c, op[c].sender, Head(context[c].reply_queue))
    /\ LET ctx == [context[c] EXCEPT !.reply_queue = Tail(@)]
           instance_clients == instances[routed[c]].clients
       IN  /\ context' = [context EXCEPT ![c] = ctx]
           /\ pc' = [pc EXCEPT ![c] = drain_pc(ctx, instance_clients)]
           /\ todo' = [todo EXCEPT ![c] =
                          broadcast_recipients(ctx, instance_clients)]
    /\ UNCHANGED <<instances, clients, holder, poisoned, alive, op, key,
                   routed, pre, calls, returned, accepted, depth, script,
                   written, timer_vars, export_vars>>

\* Mutant of send_broadcast: the message is sent to the originating sender
\* once per client instead of to the client.
send_broadcast_to_sender(c) ==
    /\ pc[c] = "broadcast"
    /\ \E client \in todo[c] :
          /\ send_message(c, op[c].sender, Head(context[c].broadcast_queue))
          /\ IF todo[c] = {client}
             THEN LET ctx == [context[c] EXCEPT !.broadcast_queue = Tail(@)]
                      instance_clients == instances[routed[c]].clients
                  IN  /\ context' = [context EXCEPT ![c] = ctx]
                      /\ pc' = [pc EXCEPT ![c] = drain_pc(ctx, instance_clients)]
                      /\ todo' = [todo EXCEPT ![c] =
                                     broadcast_recipients(ctx, instance_clients)]
             ELSE /\ todo' = [todo EXCEPT ![c] = @ \ {client}]
                  /\ UNCHANGED <<context, pc>>
    /\ UNCHANGED <<instances, clients, holder, poisoned, alive, op, key,
                   routed, pre, calls, returned, accepted, depth, script,
                   written, timer_vars, export_vars>>

\* for msg in context.broadcast_queue, for client in &instance.clients:
\* the message goes to one more client.  A HashSet is iterated in no
\* particular order.  After the last client the outer loop takes the next
\* message.
send_broadcast(c) ==
    /\ pc[c] = "broadcast"
    /\ \E client \in todo[c] :
          /\ send_message(c, client, Head(context[c].broadcast_queue))
          /\ IF todo[c] = {client}
             THEN LET ctx == [context[c] EXCEPT !.broadcast_queue = Tail(@)]
                      instance_clients == instances[routed[c]].clients
                  IN  /\ context' = [context EXCEPT ![c] = ctx]
                      /\ pc' = [pc EXCEPT ![c] = drain_pc(ctx, instance_clients)]
                      /\ todo' = [todo EXCEPT ![c] =
                                     broadcast_recipients(ctx, instance_clients)]
             ELSE /\ todo' = [todo EXCEPT ![c] = @ \ {client}]
                  /\ UNCHANGED <<context, pc>>
    /\ UNCHANGED <<instances, clients, holder, poisoned, alive, op, key,
                   routed, pre, calls, returned, accepted, depth, script,
                   written, timer_vars, export_vars>>

\* The operation returns: the guard is dropped, the locals are gone.
Return(c) ==
    /\ pc[c] = "return"
    /\ holder' = IF holder = c THEN NoCaller ELSE holder
    /\ returned' = IF op[c].name = "new_instance" /\ key[c] \in DOMAIN returned
                   THEN [returned EXCEPT ![key[c]] = @ + 1]
                   ELSE returned
    /\ pc' = [pc EXCEPT ![c] = "idle"]
    /\ op' = [op EXCEPT ![c] = NoOp]
    /\ key' = [key EXCEPT ![c] = ""]
    /\ context' = [context EXCEPT ![c] = Context_new]
    /\ todo' = [todo EXCEPT ![c] = {}]
    /\ routed' = [routed EXCEPT ![c] = ""]
    /\ pre' = [pre EXCEPT ![c] = NoPre]
    /\ sent' = [sent EXCEPT ![c] = NoSent]
    /\ calls' = [calls EXCEPT ![c] = <<>>]
    /\ last' = [s \in Senders |-> IF last[s] = c THEN NoCaller ELSE last[s]]
    /\ script' = [script EXCEPT ![c] = <<>>]
    /\ depth' = [depth EXCEPT ![c] = 0]
    /\ UNCHANGED <<instances, clients, poisoned, alive, accepted, written,
                   timer_vars, export_vars>>

(***************************************************************************)
(* Failing connections.  Sender::send returns Err when the connection's    *)
(* channel is gone; send_message then runs todo!(), a panic.  The panic    *)
(* unwinds through the MutexGuard: the lock is released and poisoned, and  *)
(* every later lock().unwrap() panics.                                     *)
(***************************************************************************)
\* The connection of s goes away: from now on send to s returns Err.
Disconnect(s) ==
    /\ alive[s]
    /\ alive' = [alive EXCEPT ![s] = FALSE]
    /\ UNCHANGED <<instances, clients, holder, poisoned, pc, op, key,
                   context, todo, routed, pre, sent, calls, returned, last,
                   accepted, depth, script, written, timer_vars, export_vars>>

\* The senders the next send_message of caller c may go to.
next_recipients(c) ==
    CASE pc[c] \in {"no_instance", "already_connected"} -> {op[c].sender}
      [] pc[c] = "reply" -> {op[c].sender}
      [] pc[c] = "broadcast" -> todo[c]
      [] OTHER -> {}

\* SyncManager::send_message, the Err branch: todo!("handle ws send errors").
send_message_panics(c) ==
    /\ \E to \in next_recipients(c) : ~alive[to]
    /\ pc' = [pc EXCEPT ![c] = "panicked"]
    /\ holder' = IF holder = c THEN NoCaller ELSE holder
    /\ poisoned' = TRUE
    /\ UNCHANGED <<instances, clients, alive, op, key, context, todo, routed,
                   pre, sent, calls, returned, last, accepted, depth, script,
                   written, timer_vars, export_vars>>

\* lock!(self) on a poisoned Mutex: unwrap() of the PoisonError panics.
lock_panics(c) ==
    /\ pc[c] = "idle"
    /\ poisoned
    /\ pc' = [pc EXCEPT ![c] = "lock_panicked"]
    /\ UNCHANGED <<instances, clients, holder, poisoned, alive, op, key,
                   context, todo, routed, pre, sent, calls, returned, last,
                   accepted, depth, script, written, timer_vars, export_vars>>

(***************************************************************************)
(* Specifications.  Spec: every connection accepts every send.  SpecFail:  *)
(* connections may go away at any time.                                    *)
(***************************************************************************)
Next ==
    \/ \E c \in Callers : Call_new_instance(c)
    \/ \E c \in Callers, m \in ClientMessages, s \in Senders :
          Call_handle_message(c, m, s)
    \/ \E c \in Callers, k \in MsgKeys, s \in Senders : Call_subscribe(c, k, s)
    \/ \E c \in Callers : generate_unique_key(c)
    \/ \E c \in Callers : new_instance(c)
    \/ \E c \in Callers : handle_message(c)
    \/ \E c \in Callers : send_no_instance(c)
    \/ \E c \in Callers : subscribe(c)
    \/ \E c \in Callers : send_already_connected(c)
    \/ \E c \in Callers : subscribe_insert(c)
    \/ \E c \in Callers : handle_message_for_instance(c)
    \/ \E c \in Callers : send_reply(c)
    \/ \E c \in Callers : send_broadcast(c)
    \/ \E c \in Callers : Return(c)

Spec == Init /\ [][Next]_vars

NextFail ==
    \/ Next
    \/ \E s \in Senders : Disconnect(s)
    \/ \E c \in Callers : send_message_panics(c)
    \/ \E c \in Callers : lock_panics(c)

SpecFail == Init /\ [][NextFail]_vars

(***************************************************************************)
(* The manager of any instance: one instance is registered, and its        *)
(* handler makes any calls on the Context.                                 *)
(***************************************************************************)
\* handle_message_for_instance with the handler of any Instance.
handle_message_for_any_instance(c) ==
    /\ pc[c] = "handle"
    /\ \E kinds \in Scripts :
          LET message == routed_message(op[c])
          IN  handler_returns(c, message,
                  AnyInstance_handle_message(instances[routed[c]].instance,
                                             message, Context_new, kinds))
    /\ UNCHANGED <<clients, holder, poisoned, alive, op, key, routed, pre,
                   sent, returned, last, accepted, depth, written,
                   timer_vars, export_vars>>

DrainInit ==
    /\ ManagerWith({generate_key(0)})
    /\ TimerIdle
    /\ ExportIdle

DrainNext ==
    \/ \E c \in Callers, m \in ClientMessages, s \in Senders :
          Call_handle_message(c, m, s)
    \/ \E c \in Callers, k \in MsgKeys, s \in Senders : Call_subscribe(c, k, s)
    \/ \E c \in Callers : handle_message(c)
    \/ \E c \in Callers : send_no_instance(c)
    \/ \E c \in Callers : subscribe(c)
    \/ \E c \in Callers : send_already_connected(c)
    \/ \E c \in Callers : subscribe_insert(c)
    \/ \E c \in Callers : handle_message_for_any_instance(c)
    \/ \E c \in Callers : send_reply(c)
    \/ \E c \in Callers : send_broadcast(c)
    \/ \E c \in Callers : Return(c)

SpecDrain == DrainInit /\ [][DrainNext]_vars

(***************************************************************************)
(* Key generation with the whole range of codes: a registry that holds     *)
(* some of the first and the last key of the range, and new_instance calls *)
(* until one has added a key other than these two.                         *)
(***************************************************************************)
AllCodes == 0..(KeyRange - 1)
EndKeys == {generate_key(0), generate_key(KeyRange - 1)}

\* Manager::new_instance, called while the registry holds end keys only.
Call_new_instance_early(c) ==
    /\ DOMAIN instances \subseteq EndKeys
    /\ Call_new_instance(c)

\* generate_unique_key: one draw of generate_key, from all its codes.
generate_unique_key_of_all(c) ==
    /\ pc[c] = "generate"
    /\ \E code \in AllCodes : retry_or_return(c, generate_key(code))
    /\ UNCHANGED <<instances, clients, holder, poisoned, alive, op, context,
                   todo, routed, pre, sent, calls, returned, last, accepted,
                   script, written, timer_vars, export_vars>>

KeyInit ==
    /\ \E keys \in SUBSET EndKeys : ManagerWith(keys)
    /\ TimerIdle
    /\ ExportIdle

KeyNext ==
    \/ \E c \in Callers : Call_new_instance_early(c)
    \/ \E c \in Callers : generate_unique_key_of_all(c)
    \/ \E c \in Callers : new_instance(c)
    \/ \E c \in Callers : Return(c)

SpecKey == KeyInit /\ [][KeyNext]_vars

(***************************************************************************)
(* The timer on its own: any configuration, any timestamps.  Nothing in    *)
(* Timer asks that timestamps grow.                                        *)
(***************************************************************************)
\* Mutant of start: a timer that timed out can be started again.
start_unless_running(start_time) ==
    /\ timer' = IF timer.timer_state # Running
                THEN [timer EXCEPT !.last_timestamp = start_time,
                                   !.timer_state = Running]
                ELSE timer
    /\ started_at' = IF timer.timer_state # Running
                     THEN <<start_time>> ELSE started_at
    /\ tcall' = StartCall(timer, start_time)
    /\ UNCHANGED <<manager_vars, export_vars>>

\* Mutant of start: the timer is started whatever its state.
start_always(start_time) ==
    /\ timer' = [timer EXCEPT !.last_timestamp = start_time,
                              !.timer_state = Running]
    /\ started_at' = <<start_time>>
    /\ tcall' = StartCall(timer, start_time)
    /\ UNCHANGED <<manager_vars, export_vars>>

\* Timer::start
start(start_time) ==
    /\ timer' = IF timer.timer_state = Paused
                THEN [timer EXCEPT !.last_timestamp = start_time,
                                   !.timer_state = Running]
                ELSE timer
    /\ started_at' = IF timer.timer_state = Paused
                     THEN <<start_time>> ELSE started_at
    /\ tcall' = StartCall(timer, start_time)
    /\ UNCHANGED <<manager_vars, export_vars>>

\* Mutant of use_time_running: last_timestamp stays what it was.
use_time_running_from_the_start(t, player, now) ==
    LET time_passed == now - t.last_timestamp
        charged == IF player = "White"
                   THEN [t EXCEPT !.time_left_white = @ - time_passed]
                   ELSE [t EXCEPT !.time_left_black = @ - time_passed]
        time_left == IF player = "White"
                     THEN charged.time_left_white
                     ELSE charged.time_left_black
    IN  [charged EXCEPT !.timer_state = IF time_left <= 0
                                        THEN Timeout(player) ELSE @]

\* Mutant of use_time_running: the player times out only below zero.
use_time_running_below_zero(t, player, now) ==
    LET time_passed == now - t.last_timestamp
        charged == IF player = "White"
                   THEN [t EXCEPT !.time_left_white = @ - time_passed]
                   ELSE [t EXCEPT !.time_left_black = @ - time_passed]
        time_left == IF player = "White"
                     THEN charged.time_left_white
                     ELSE charged.time_left_black
    IN  [charged EXCEPT !.last_timestamp = now,
                        !.timer_state = IF time_left < 0
                                        THEN Timeout(player) ELSE @]

\* Timer::use_time on a running timer: the timer it leaves.
use_time_running(t, player, now) ==
    LET time_passed == now - t.last_timestamp
        charged == IF player = "White"
                   THEN [t EXCEPT !.time_left_white = @ - time_passed]
                   ELSE [t EXCEPT !.time_left_black = @ - time_passed]
        time_left == IF player = "White"
                     THEN charged.time_left_white
                     ELSE charged.time_left_black
    IN  [charged EXCEPT !.last_timestamp = now,
                        !.timer_state = IF time_left <= 0
                                        THEN Timeout(player) ELSE @]

\* Mutant of use_time: the time is charged whatever the state.
use_time_in_any_state(player, now) ==
    /\ timer' = use_time_running(timer, player, now)
    /\ tcall' = UseTimeCall(timer, player, now, timer'.timer_state)
    /\ UNCHANGED <<manager_vars, export_vars, started_at>>

\* Timer::use_time
use_time(player, now) ==
    /\ timer' = IF timer.timer_state # Running
                THEN timer
                ELSE use_time_running(timer, player, now)
    /\ tcall' = UseTimeCall(timer, player, now, timer'.timer_state)
    /\ UNCHANGED <<manager_vars, export_vars, started_at>>

TimerInit ==
    /\ ManagerWith({})
    /\ \E white, black \in Budgets, now \in Times :
          /\ timer = Timer_from(TimerConfig(white, black), now)
          /\ tcall = FromCall(TimerConfig(white, black), now)
    /\ started_at = NotStarted
    /\ ExportIdle

TimerNext ==
    \/ \E start_time \in Times : start(start_time)
    \/ \E player \in PlayerColors, now \in Times : use_time(player, now)

SpecTimer == TimerInit /\ [][TimerNext]_vars

(***************************************************************************)
(* apply_action_bang on its own: any action code.  What DenseBoard does    *)
(* with an action is not looked at; execute returns Ok or Err.             *)
(***************************************************************************)
\* let res = ps.execute(action); -1 if res.is_err(), 0 otherwise.
execute(action) ==
    /\ executed' = action
    /\ \E is_err \in BOOLEAN : result' = Returns(IF is_err THEN -1 ELSE 0)

\* apply_action_bang.  action - 1 - 64 is computed on u8: below 65 the
\* subtraction overflows, which panics in a build with overflow checks and
\* wraps around in a build without.
apply_action_bang(action) ==
    /\ called' = action
    /\ IF 1 <= action /\ action <= 64
       THEN execute(Lift(action - 1))
       ELSE IF action <= 128
            THEN IF action - 1 < 0 \/ action - 1 - 64 < 0
                 THEN \/ /\ executed' = NoAction
                         /\ result' = Panics
                      \/ execute(Place(wrapping_sub(wrapping_sub(action, 1), 64)))
                 ELSE execute(Place(action - 1 - 64))
            ELSE /\ executed' = NoAction
                 /\ result' = Returns(-1)
    /\ UNCHANGED <<manager_vars, timer_vars>>

ExportInit ==
    /\ ManagerWith({})
    /\ TimerIdle
    /\ ExportIdle

ExportNext == \E action \in ActionCodes : apply_action_bang(action)

SpecExport == ExportInit /\ [][ExportNext]_vars

(***************************************************************************)
(* Vocabulary of the properties.                                           *)
(***************************************************************************)
\* Sender s is in the subscriber set of the registry entry for k.
Subscribed(s, k) == k \in DOMAIN instances /\ s \in instances[k].clients

\* The client table lists k in the entry of s.
ListedIn(table, s, k) == s \in DOMAIN table /\ k \in table[s].connected_to
Listed(s, k) == ListedIn(clients, s, k)

\* Caller c is inside an operation, between taking the lock and returning.
InCore(c) == pc[c] \notin {"idle", "panicked", "lock_panicked"}

\* Caller c has run its operation to the end and is about to return.
AtReturn(c, name) == pc[c] = "return" /\ op[c].name = name

\* The deliveries of an operation that sent message to sender alone.
OnlyTo(sender, message) == [NoSent EXCEPT ![sender] = <<message>>]

\* Registry and client table are as they were when c took the lock.
Untouched(c) == instances = pre[c].instances /\ clients = pre[c].clients

\* The messages of the sequence stream.
Range(stream) == {stream[i] : i \in 1..Len(stream)}

\* The messages the calls of scr passed to reply, or to broadcast, in the
\* order of the calls.
RECURSIVE Enqueued(_, _)
Enqueued(scr, call) ==
    IF scr = <<>> THEN <<>>
    ELSE (IF Head(scr).call = call THEN <<Head(scr).message>> ELSE <<>>)
            \o Enqueued(Tail(scr), call)

\* The sequence stream is the beginning of the sequence whole.
IsPrefix(stream, whole) ==
    Len(stream) <= Len(whole) /\ stream = SubSeq(whole, 1, Len(stream))

\* The decimal strings between 1000 and 9999.
FourDigits ==
    {Digit(a) \o Digit(b) \o Digit(c) \o Digit(d) :
        a \in 1..9, b \in 0..9, c \in 0..9, d \in 0..9}

\* How often message occurs in the sequence stream.
Count(stream, message) ==
    Cardinality({i \in 1..Len(stream) : stream[i] = message})

(***************************************************************************)
(* C1.  In every state between the operations' two updates -- that is, in  *)
(* every state except inside a subscribe that has updated the client table *)
(* and not yet the subscriber set, which the lock hides -- sender s is in  *)
(* the subscriber set of the entry for k exactly when the client-table     *)
(* entry of s lists k.                                                     *)
(***************************************************************************)
C1_SubscriberIffListed ==
    (\A c \in Callers : pc[c] # "connect")
        => \A s \in Senders, k \in MsgKeys : Subscribed(s, k) <=> Listed(s, k)

\* A sender subscribed to two instances, a second sender to one, lock free.
C1_Witness ==
    /\ holder = NoCaller
    /\ \E s \in Senders, k1, k2 \in GeneratedKeys :
          k1 # k2 /\ Subscribed(s, k1) /\ Subscribed(s, k2)
    /\ \E s1, s2 \in Senders, k \in GeneratedKeys :
          Subscribed(s1, k) /\ ~Subscribed(s2, k)

(***************************************************************************)
(* C2.  A handle_message call whose key has no registry entry ends with    *)
(* exactly one message delivered, the error reply naming that key, to the  *)
(* sender; nothing to any other connection; no handler invoked; registry   *)
(* and client table as before the call.                                    *)
(***************************************************************************)
C2_UnknownKeyMessage ==
    \A c \in Callers :
        AtReturn(c, "handle_message") /\ op[c].key \notin DOMAIN pre[c].instances
            => /\ sent[c] = OnlyTo(op[c].sender, error_no_instance(op[c].key))
               /\ calls[c] = <<>>
               /\ Untouched(c)

\* Such a call ends while another instance exists and has a subscriber.
C2_Witness ==
    \E c \in Callers :
        /\ AtReturn(c, "handle_message")
        /\ op[c].key \notin DOMAIN pre[c].instances
        /\ op[c].message.type = "Set"
        /\ op[c].key \in GeneratedKeys
        /\ \E k \in DOMAIN instances : instances[k].clients # {}

(***************************************************************************)
(* C3.  A subscribe call whose key has no registry entry ends with exactly *)
(* one message delivered, the error reply naming that key, to the sender;  *)
(* no client-table entry is created or extended and no subscriber set      *)
(* changes.                                                                *)
(***************************************************************************)
C3_UnknownKeySubscribe ==
    \A c \in Callers :
        AtReturn(c, "subscribe") /\ op[c].key \notin DOMAIN pre[c].instances
            => /\ sent[c] = OnlyTo(op[c].sender, error_no_instance(op[c].key))
               /\ calls[c] = <<>>
               /\ Untouched(c)

\* Such a call ends, by a sender the client table does not know yet, while
\* another instance exists.
C3_Witness ==
    \E c \in Callers :
        /\ AtReturn(c, "subscribe")
        /\ op[c].key \notin DOMAIN pre[c].instances
        /\ op[c].sender \notin DOMAIN clients
        /\ DOMAIN instances # {}

(***************************************************************************)
(* C4.  Subscribing to an existing key: the call of a sender not yet       *)
(* subscribed to it (the first call) delivers the instance's reply to the  *)
(* synthesized subscribe message; the call of a sender already subscribed  *)
(* (the second call) delivers exactly one error reply, "already connected  *)
(* to K", invokes no handler and leaves the subscriber sets, the client    *)
(* table and its number of entries as the first call left them.            *)
(***************************************************************************)
C4_SubscribeTwice ==
    \A c \in Callers :
        AtReturn(c, "subscribe") /\ op[c].key \in DOMAIN pre[c].instances
            => LET k == op[c].key
                   s == op[c].sender
                   first == ~ListedIn(pre[c].clients, s, k)
               IN  /\ first =>
                         /\ sent[c] =
                               OnlyTo(s, IsNow(k, pre[c].instances[k].instance.value))
                         /\ calls[c] =
                               <<[key |-> k, message |-> ClientMessage_subscribe(k)]>>
                         /\ Subscribed(s, k) /\ Listed(s, k)
                   /\ ~first =>
                         /\ sent[c] = OnlyTo(s, error_already_connected(k))
                         /\ calls[c] = <<>>
                         /\ Untouched(c)
                         /\ Cardinality(DOMAIN clients) =
                               Cardinality(DOMAIN pre[c].clients)
                         /\ Subscribed(s, k) /\ Listed(s, k)

\* The second call of a sender ends, on an instance with two subscribers
\* whose value a Set message has changed.
C4_Witness ==
    \E c \in Callers :
        /\ AtReturn(c, "subscribe")
        /\ ListedIn(pre[c].clients, op[c].sender, op[c].key)
        /\ instances[op[c].key].instance.value # 0
        /\ Cardinality(instances[op[c].key].clients) > 1

(***************************************************************************)
(* C5.  When a message has been routed to an instance, every connection    *)
(* has received each message the handler enqueued as a broadcast exactly   *)
(* once if it is in the instance's subscriber set (and not at all          *)
(* otherwise), and each message the handler enqueued as a reply exactly    *)
(* once if it is the originating sender (and not at all otherwise); and    *)
(* nothing else.                                                           *)
(***************************************************************************)
C5_FanOut ==
    \A c \in Callers :
        pc[c] = "return" /\ calls[c] # <<>>
            => LET k == calls[c][1].key
                   enqueued == Instance_handle_message(
                                   pre[c].instances[k].instance,
                                   calls[c][1].message, Context_new).ctx
                   messages == Range(enqueued.reply_queue)
                                  \cup Range(enqueued.broadcast_queue)
               IN  \A s \in Senders :
                      /\ Range(sent[c][s]) \subseteq messages
                      /\ \A m \in messages :
                            Count(sent[c][s], m) =
                               (IF s = op[c].sender
                                THEN Count(enqueued.reply_queue, m) ELSE 0)
                               + (IF s \in instances[k].clients
                                  THEN Count(enqueued.broadcast_queue, m) ELSE 0)

\* A Set message of a subscriber has been routed to an instance with at
\* least two subscribers, each of which has its copy.
C5_Witness ==
    \E c \in Callers :
        /\ AtReturn(c, "handle_message")
        /\ op[c].message.type = "Set"
        /\ op[c].key \in DOMAIN instances
        /\ op[c].sender \in instances[op[c].key].clients
        /\ Cardinality(instances[op[c].key].clients) > 1
        /\ \A s \in instances[op[c].key].clients : Len(sent[c][s]) = 1

(***************************************************************************)
(* C6.  The keys new_instance returns are pairwise distinct, each returned *)
(* key indexes a registry entry holding the instance made for it, and the  *)
(* entry a call inserts never replaces an existing one: the key is free    *)
(* when it is inserted and every entry that existed is still as it was.    *)
(***************************************************************************)
C6_KeysDistinct ==
    /\ \A k \in GeneratedKeys :
          /\ returned[k] <= 1
          /\ returned[k] = 1 =>
                k \in DOMAIN instances /\ instances[k].instance.key = k
    /\ \A c \in Callers : pc[c] = "insert" => key[c] \notin DOMAIN instances
    /\ \A c \in Callers :
          AtReturn(c, "new_instance")
              => /\ key[c] \notin DOMAIN pre[c].instances
                 /\ key[c] \in DOMAIN instances
                 /\ \A k \in DOMAIN pre[c].instances :
                       instances[k] = pre[c].instances[k]

\* Every key of the key space has been returned and a later operation ends.
C6_Witness ==
    /\ \A k \in GeneratedKeys : returned[k] = 1
    /\ \E c \in Callers : AtReturn(c, "subscribe")

(***************************************************************************)
(* The operations as single steps: what each does to the registry and the  *)
(* client table st it starts from, and the messages out[s] it delivers to  *)
(* each connection s, when nothing else runs between its first read and    *)
(* its last delivery.                                                      *)
(***************************************************************************)
\* handle_message_for_instance on the entry for k of registry reg.
Sequential_route(reg, table, k, message, sender) ==
    LET res == Instance_handle_message(reg[k].instance, message, Context_new)
    IN  [instances |-> [reg EXCEPT ![k].instance = res.instance],
         clients |-> table,
         out |-> [s \in Senders |->
                     (IF s = sender THEN res.ctx.reply_queue ELSE <<>>)
                     \o (IF s \in reg[k].clients
                         THEN res.ctx.broadcast_queue ELSE <<>>)]]

\* An operation that only reports an error.
Sequential_error(st, sender, message) ==
    [instances |-> st.instances, clients |-> st.clients,
     out |-> OnlyTo(sender, message)]

Sequential_handle_message(st, message, sender) ==
    IF message.key \in DOMAIN st.instances
    THEN Sequential_route(st.instances, st.clients, message.key, message, sender)
    ELSE Sequential_error(st, sender, error_no_instance(message.key))

Sequential_subscribe(st, k, sender) ==
    IF k \notin DOMAIN st.instances
    THEN Sequential_error(st, sender, error_no_instance(k))
    ELSE IF ListedIn(st.clients, sender, k)
    THEN Sequential_error(st, sender, error_already_connected(k))
    ELSE Sequential_route(
             [st.instances EXCEPT ![k].clients = @ \cup {sender}],
             [s \in DOMAIN st.clients \cup {sender} |->
                 [connected_to |->
                     (IF s \in DOMAIN st.clients
                      THEN st.clients[s].connected_to ELSE {})
                     \cup (IF s = sender THEN {k} ELSE {})]],
             k, Get(k), sender)

\* new_instance returning k.
Sequential_new_instance(st, k) ==
    [instances |-> [x \in DOMAIN st.instances \cup {k} |->
                       IF x = k THEN [instance |-> [key |-> k, value |-> 0],
                                      clients |-> {}]
                       ELSE st.instances[x]],
     clients |-> st.clients,
     out |-> NoSent]

Sequential(o, k, st) ==
    CASE o.name = "handle_message" ->
            Sequential_handle_message(st, o.message, o.sender)
      [] o.name = "subscribe" -> Sequential_subscribe(st, o.key, o.sender)
      [] OTHER -> Sequential_new_instance(st, k)

(***************************************************************************)
(* C7.  At most one caller is inside an operation at any time, and it is   *)
(* the holder of the lock; while an operation that has delivered to a      *)
(* connection is running, no other operation delivers to that connection   *)
(* (no two operations' deliveries interleave in a recipient's stream); and *)
(* when an operation ends, registry, client table and every recipient's    *)
(* messages are what the operation as a single step makes of the state it  *)
(* found when it took the lock: the operations take effect one after the   *)
(* other, in the order they took the lock.                                 *)
(***************************************************************************)
C7_Serialized ==
    /\ \A c1, c2 \in Callers : InCore(c1) /\ InCore(c2) => c1 = c2
    /\ \A c \in Callers : InCore(c) <=> holder = c
    /\ \A c \in Callers, s \in Senders :
          InCore(c) /\ sent[c][s] # <<>> => last[s] = c
    /\ \A c \in Callers :
          pc[c] = "return"
              => LET r == Sequential(op[c], key[c], pre[c])
                 IN  /\ instances = r.instances
                     /\ clients = r.clients
                     /\ sent[c] = r.out

\* A Set message that changes the value an earlier Set message left has
\* been routed to an instance with two subscribers; both have their copy.
C7_Witness ==
    \E c \in Callers :
        /\ AtReturn(c, "handle_message")
        /\ op[c].message.type = "Set"
        /\ op[c].key \in DOMAIN instances
        /\ pre[c].instances[op[c].key].instance.value # op[c].message.value
        /\ pre[c].instances[op[c].key].instance.value # 0
        /\ Cardinality(instances[op[c].key].clients) > 1
        /\ \A s \in instances[op[c].key].clients :
              sent[c][s] # <<>> /\ last[s] = c

(***************************************************************************)
(* C8.  Of all subscribe calls, by whichever callers, for one sender and   *)
(* one existing key, exactly one is accepted (routes the synthesized       *)
(* subscribe message); every other one gets the "already connected" error  *)
(* and routes nothing; and after any of them the sender is in the          *)
(* subscriber set and the key in the sender's client-table entry.          *)
(***************************************************************************)
C8_OneAccepted ==
    /\ \A s \in Senders, k \in GeneratedKeys :
          /\ accepted[s][k] <= 1
          /\ accepted[s][k] = 1 <=> Subscribed(s, k)
    /\ \A c \in Callers :
          AtReturn(c, "subscribe") /\ op[c].key \in DOMAIN pre[c].instances
              => LET k == op[c].key
                     s == op[c].sender
                 IN  /\ accepted[s][k] = 1
                     /\ Subscribed(s, k) /\ Listed(s, k)
                     /\ \/ /\ calls[c] =
                                <<[key |-> k, message |-> ClientMessage_subscribe(k)]>>
                           /\ ~ListedIn(pre[c].clients, s, k)
                        \/ /\ calls[c] = <<>>
                           /\ sent[c] = OnlyTo(s, error_already_connected(k))
                           /\ ListedIn(pre[c].clients, s, k)

\* A subscribe call is rejected after another one for the same sender and
\* key was accepted.
C8_Witness ==
    \E c \in Callers :
        /\ AtReturn(c, "subscribe")
        /\ op[c].key \in DOMAIN instances
        /\ calls[c] = <<>>
        /\ accepted[op[c].sender][op[c].key] = 1

\* The subscribers a caller stopped in the routing loops has not delivered
\* a queued broadcast message to.
CutOff(c) ==
    IF routed[c] \notin DOMAIN instances \/ context[c].broadcast_queue = <<>>
    THEN {}
    ELSE (IF context[c].reply_queue = <<>> THEN todo[c]
          ELSE instances[routed[c]].clients)
         \cup (IF Len(context[c].broadcast_queue) > 1
               THEN instances[routed[c]].clients ELSE {})

(***************************************************************************)
(* C9.  When an operation has ended by a failed delivery, no queued        *)
(* broadcast message is left undelivered to a subscriber whose connection  *)
(* accepts messages: the failure of one recipient does not cut off the     *)
(* others.                                                                 *)
(***************************************************************************)
C9_FanOutSurvivesFailure ==
    \A c \in Callers :
        pc[c] = "panicked" => \A s \in CutOff(c) : ~alive[s]

(***************************************************************************)
(* C10.  No call fails to get the lock: whatever way the operations before *)
(* it ended, a caller that invokes an operation acquires the lock (and so  *)
(* runs the operation) instead of failing on it.                           *)
(***************************************************************************)
C10_LockUsableAfterEveryEnd ==
    \A c \in Callers : pc[c] # "lock_panicked"

(***************************************************************************)
(* C11.  While the queues of one routed message are drained, and when the  *)
(* operation returns, nothing was delivered before the handler returned,   *)
(* and what every recipient has been sent is a prefix of -- at the return, *)
(* exactly -- the messages the handler passed to reply, in the order of    *)
(* the calls, if the recipient is the originating sender, followed by the  *)
(* messages the handler passed to broadcast, in the order of the calls, if *)
(* the recipient is a subscriber of the instance.  So every message is     *)
(* delivered once, and a broadcast enqueued before a reply reaches the     *)
(* sender after that reply.                                                *)
(***************************************************************************)
C11_RepliesThenBroadcasts ==
    \A c \in Callers :
        /\ pc[c] = "handle" => sent[c] = NoSent
        /\ pc[c] \in {"reply", "broadcast", "return"} /\ calls[c] # <<>>
              => \A s \in Senders :
                    LET expected ==
                           (IF s = op[c].sender
                            THEN Enqueued(script[c], "reply") ELSE <<>>)
                           \o (IF s \in instances[routed[c]].clients
                               THEN Enqueued(script[c], "broadcast") ELSE <<>>)
                    IN  IF pc[c] = "return"
                        THEN sent[c][s] = expected
                        ELSE IsPrefix(sent[c][s], expected)

\* The handler called broadcast and then reply for a subscriber's message,
\* with a second subscriber: the sender got the reply, then the broadcast.
C11_Witness ==
    \E c \in Callers, s1, s2 \in Senders :
        /\ AtReturn(c, "handle_message") /\ op[c].sender = s1 /\ s1 # s2
        /\ Len(script[c]) = 2
        /\ script[c][1].call = "broadcast" /\ script[c][2].call = "reply"
        /\ sent[c][s1] = <<script[c][2].message, script[c][1].message>>
        /\ sent[c][s2] = <<script[c][1].message>>

(***************************************************************************)
(* C12.  When the synthesized subscribe message of an accepted             *)
(* subscription is about to be given to the handler, the key is already    *)
(* in the sender's client-table entry and the sender already in the        *)
(* instance's subscriber set; and when the subscription returns, exactly   *)
(* that message was handled and the new subscriber has every reply and     *)
(* every broadcast the handler enqueued for it.                            *)
(***************************************************************************)
C12_SubscribedBeforeRouted ==
    \A c \in Callers :
        op[c].name = "subscribe" =>
            /\ pc[c] = "handle"
                  => Subscribed(op[c].sender, op[c].key)
                        /\ Listed(op[c].sender, op[c].key)
            /\ pc[c] = "return" /\ calls[c] # <<>>
                  => /\ calls[c] = <<[key |-> op[c].key,
                                      message |-> ClientMessage_subscribe(op[c].key)]>>
                     /\ ~ListedIn(pre[c].clients, op[c].sender, op[c].key)
                     /\ Subscribed(op[c].sender, op[c].key)
                     /\ \A i \in 1..Len(script[c]) :
                           Count(sent[c][op[c].sender], script[c][i].message) = 1

\* A first subscription whose handler called broadcast and reply returns:
\* the new subscriber has both messages.
C12_Witness ==
    \E c \in Callers :
        /\ AtReturn(c, "subscribe") /\ calls[c] # <<>>
        /\ pre[c].instances[op[c].key].clients # {}
        /\ \E i, j \in 1..Len(script[c]) :
              script[c][i].call = "broadcast" /\ script[c][j].call = "reply"
        /\ Len(sent[c][op[c].sender]) = Len(script[c])

(***************************************************************************)
(* C13.  No step removes a registry entry, a client-table entry, a key     *)
(* from a client-table entry or a sender from a subscriber set: whoever is *)
(* subscribed before a step is subscribed after it.                        *)
(***************************************************************************)
C13_NothingRemoved ==
    [][/\ DOMAIN instances \subseteq DOMAIN instances'
       /\ DOMAIN clients \subseteq DOMAIN clients'
       /\ \A k \in DOMAIN instances :
             instances[k].clients \subseteq instances'[k].clients
       /\ \A s \in DOMAIN clients :
             clients[s].connected_to \subseteq clients'[s].connected_to]_vars

\* A subscription of a subscriber has been refused, and a new_instance and
\* a message have run since it subscribed: it is subscribed as before.
C13_Witness ==
    \E c \in Callers, s \in Senders, k \in GeneratedKeys :
        /\ AtReturn(c, "subscribe") /\ op[c].sender = s /\ op[c].key = k
        /\ sent[c] = OnlyTo(s, error_already_connected(k))
        /\ Subscribed(s, k) /\ Listed(s, k)
        /\ instances[k].instance.value = 42
        /\ Cardinality(DOMAIN instances) = 2

(***************************************************************************)
(* C14.  Whatever the map, the key generate_unique_key returns is a        *)
(* decimal string between 1000 and 9999 -- four digits, the first not 0 -- *)
(* and is not a key of the map: a candidate the map contains is not        *)
(* returned.                                                               *)
(***************************************************************************)
C14_UniqueKeyInRange ==
    \A c \in Callers :
        pc[c] = "insert" =>
            /\ key[c] \in FourDigits
            /\ key[c] \notin DOMAIN instances
            /\ instances = pre[c].instances

\* After a candidate the map contains was drawn and thrown away, the
\* largest key is returned for a map that holds the smallest.
C14_Witness ==
    \E c \in Callers :
        /\ pc[c] = "insert" /\ depth[c] > 0
        /\ key[c] = "9999" /\ DOMAIN instances = {"1000"}

(***************************************************************************)
(* C15.  A new_instance call returns if a key is free and retries for ever *)
(* if none is.  Either way, a call that has begun is drawing keys until it *)
(* has one the registry does not hold, and then inserts it and returns: it *)
(* never ends in any other way, however many candidates collide.           *)
(***************************************************************************)
C15_RetriesUntilFreeKey ==
    \A c \in Callers :
        op[c].name = "new_instance" => pc[c] \in {"generate", "insert", "return"}

(***************************************************************************)
(* C16.  When a new_instance call returns, the registry is the registry    *)
(* its caller found with one entry more, under the returned key, which the *)
(* registry did not hold: a new instance with that key and no subscriber.  *)
(* The entries found are unchanged, so is the client table, and no message *)
(* was handled or delivered.                                               *)
(***************************************************************************)
C16_OneNewEntry ==
    \A c \in Callers :
        AtReturn(c, "new_instance") =>
            /\ key[c] \notin DOMAIN pre[c].instances
            /\ DOMAIN instances = DOMAIN pre[c].instances \cup {key[c]}
            /\ instances[key[c]] =
                  [instance |-> [key |-> key[c], value |-> 0], clients |-> {}]
            /\ \A k \in DOMAIN pre[c].instances :
                  instances[k] = pre[c].instances[k]
            /\ clients = pre[c].clients
            /\ sent[c] = NoSent
            /\ calls[c] = <<>>

\* A second instance is created while the first has a subscriber and a
\* value that was set.
C16_Witness ==
    \E c \in Callers, k \in GeneratedKeys, s \in Senders :
        /\ AtReturn(c, "new_instance") /\ key[c] # k
        /\ Subscribed(s, k) /\ Listed(s, k)
        /\ instances[k].instance.value = 42

(***************************************************************************)
(* C17.  An instance constructed with a key reports that key; and in every *)
(* state each registry entry, indexed by k, holds an instance whose key()  *)
(* is k, and k is the key one new_instance call returned or is about to    *)
(* return.                                                                 *)
(***************************************************************************)
C17_EntryKeyIsInstanceKey ==
    /\ \A k \in MsgKeys : Instance_key(new_with_key(k)) = k
    /\ \A k \in DOMAIN instances :
          /\ Instance_key(instances[k].instance) = k
          /\ \/ returned[k] = 1
             \/ \E c \in Callers : AtReturn(c, "new_instance") /\ key[c] = k

\* Two entries, both returned; the instance of one has handled a Set.
C17_Witness ==
    /\ DOMAIN instances = GeneratedKeys
    /\ \A k \in GeneratedKeys : returned[k] = 1
    /\ \E k \in GeneratedKeys : instances[k].instance.value = 42

(***************************************************************************)
(* C18.  After start(t) on a paused timer, the timer is running, its       *)
(* last_timestamp is t and nothing else has changed; after start(t) on a   *)
(* running or timed-out timer, the timer is as it was.                     *)
(***************************************************************************)
C18_StartOnlyFromPaused ==
    tcall.name = "start" =>
        IF tcall.before.timer_state = "Paused"
        THEN timer = [tcall.before EXCEPT !.last_timestamp = tcall.start_time,
                                          !.timer_state = "Running"]
        ELSE timer = tcall.before

\* A paused timer has been started at a time other than its last_timestamp.
C18_Witness ==
    /\ tcall.name = "start"
    /\ tcall.before.timer_state = "Paused"
    /\ tcall.start_time # tcall.before.last_timestamp
    /\ timer.timer_state = "Running"

(***************************************************************************)
(* C19.  A timer built from a configuration is paused and each player's    *)
(* remaining time is that player's budget; and after use_time on a timer   *)
(* that is not running, the call has returned the timer's state and the    *)
(* timer, with its remaining times and last_timestamp, is as it was.       *)
(***************************************************************************)
C19_PausedUntilStarted ==
    /\ tcall.name = "from" =>
          /\ timer.timer_state = "Paused"
          /\ timer.time_left_white = tcall.config.time_budget_white
          /\ timer.time_left_black = tcall.config.time_budget_black
    /\ tcall.name = "use_time" /\ tcall.before.timer_state # "Running" =>
          /\ tcall.result = tcall.before.timer_state
          /\ timer = tcall.before

\* use_time on a timer that was never started, at a later time.
C19_Witness ==
    /\ tcall.name = "use_time"
    /\ tcall.before.timer_state = "Paused"
    /\ tcall.now > tcall.before.last_timestamp
    /\ tcall.before.time_left_white > 0 /\ tcall.before.time_left_black > 0

(***************************************************************************)
(* C20.  After use_time(player, now) on a running timer, the player's      *)
(* remaining time is what it was less now - last_timestamp, the other      *)
(* player's remaining time and the configuration are what they were,       *)
(* last_timestamp is now, and the call has returned the timer's new state: *)
(* Timeout(player) if the player's remaining time is now zero or less,     *)
(* Running otherwise.                                                      *)
(***************************************************************************)
C20_ChargesThePlayer ==
    tcall.name = "use_time" /\ tcall.before.timer_state = "Running" =>
        LET time_passed == tcall.now - tcall.before.last_timestamp
            white == tcall.before.time_left_white
                        - (IF tcall.player = "White" THEN time_passed ELSE 0)
            black == tcall.before.time_left_black
                        - (IF tcall.player = "Black" THEN time_passed ELSE 0)
            time_left == IF tcall.player = "White" THEN white ELSE black
        IN  /\ timer.time_left_white = white
            /\ timer.time_left_black = black
            /\ timer.last_timestamp = tcall.now
            /\ timer.config = tcall.before.config
            /\ timer.timer_state = tcall.result
            /\ tcall.result = IF time_left <= 0
                              THEN Timeout(tcall.player) ELSE "Running"

\* Black has used exactly the time it had left: the call returns
\* Timeout(Black), and White's time is untouched.
C20_Witness ==
    /\ tcall.name = "use_time" /\ tcall.before.timer_state = "Running"
    /\ tcall.player = "Black"
    /\ tcall.before.time_left_black > 0
    /\ timer.time_left_black = 0
    /\ timer.time_left_white > 0
    /\ tcall.result = "Timeout(Black)"

(***************************************************************************)
(* C21.  When a handle_message call addressed to key K returns, no handler *)
(* but that of the instance registered under K has been given a message,   *)
(* every other registry entry is what it was, every subscriber set and the *)
(* client table are what they were, and a connection that is neither the   *)
(* sender nor a subscriber of K has been sent nothing.                     *)
(***************************************************************************)
C21_OnlyTheAddressedInstance ==
    \A c \in Callers :
        AtReturn(c, "handle_message") =>
            LET K == op[c].key
            IN  /\ \A i \in 1..Len(calls[c]) : calls[c][i].key = K
                /\ DOMAIN instances = DOMAIN pre[c].instances
                /\ \A k \in DOMAIN instances :
                      /\ k # K => instances[k] = pre[c].instances[k]
                      /\ instances[k].clients = pre[c].instances[k].clients
                /\ clients = pre[c].clients
                /\ \A s \in Senders :
                      s # op[c].sender /\ ~Subscribed(s, K) => sent[c][s] = <<>>

\* A Set for one of two instances returns: the subscriber of that instance
\* has the broadcast, the subscriber of the other instance has nothing and
\* the other instance keeps the value it was set to.
C21_Witness ==
    \E c \in Callers, s1, s2 \in Senders, K, k \in GeneratedKeys :
        /\ AtReturn(c, "handle_message") /\ op[c].key = K /\ K # k
        /\ op[c].message.type = "Set" /\ op[c].message.value = 0
        /\ Subscribed(s1, K) /\ ~Subscribed(s2, K)
        /\ Subscribed(s2, k) /\ ~Subscribed(s1, k)
        /\ sent[c][s1] # <<>> /\ sent[c][s2] = <<>>
        /\ instances[k].instance.value = 42

(***************************************************************************)
(* C22.  When a routed handle_message call returns, its sender has been    *)
(* sent the replies and then, exactly if it was in the subscriber set of   *)
(* the instance, the broadcasts of the handler.  The message of a sender   *)
(* that is not subscribed is handled all the same -- a Set leaves its      *)
(* value in the instance -- and the sender is not in the subscriber set    *)
(* afterwards either.                                                      *)
(***************************************************************************)
C22_BroadcastIffSubscribed ==
    \A c \in Callers :
        AtReturn(c, "handle_message") /\ op[c].key \in DOMAIN pre[c].instances =>
            LET K == op[c].key
                sender == op[c].sender
                member == sender \in pre[c].instances[K].clients
            IN  /\ calls[c] = <<[key |-> K, message |-> op[c].message]>>
                /\ sent[c][sender] =
                      Enqueued(script[c], "reply")
                         \o (IF member THEN Enqueued(script[c], "broadcast")
                             ELSE <<>>)
                /\ op[c].message.type = "Set" =>
                      /\ instances[K].instance.value = op[c].message.value
                      /\ Enqueued(script[c], "broadcast") # <<>>
                /\ Subscribed(sender, K) <=> member

\* A connection that never subscribed has set the value of an instance
\* with a subscriber: the subscriber has the broadcast, the sender nothing.
C22_Witness ==
    \E c \in Callers, s \in Senders :
        /\ AtReturn(c, "handle_message") /\ op[c].message.type = "Set"
        /\ op[c].key \in DOMAIN instances
        /\ op[c].sender \notin DOMAIN clients
        /\ Subscribed(s, op[c].key) /\ sent[c][s] # <<>>
        /\ sent[c][op[c].sender] = <<>>
        /\ instances[op[c].key].instance.value = 42
        /\ pre[c].instances[op[c].key].instance.value = 0

(***************************************************************************)
(* C23.  In every state the value of each registered instance is the value *)
(* of the last Set routed to it, in the order the lock was taken, or the   *)
(* initial value if there was none; and when an operation that routed a    *)
(* Get -- a handle_message or an accepted subscribe -- returns, its sender *)
(* has been sent exactly that value.                                       *)
(***************************************************************************)
C23_NoLostUpdate ==
    /\ \A k \in DOMAIN instances : instances[k].instance.value = written[k]
    /\ \A c \in Callers :
          pc[c] = "return" /\ calls[c] # <<>> /\ calls[c][1].message.type = "Get"
              => sent[c][op[c].sender] =
                    <<[type |-> "IsNow", key |-> op[c].key,
                       value |-> written[op[c].key], error |-> ""]>>

\* A first subscription of one connection returns after another connection
\* has set the value, through the other caller or this one: the reply
\* holds the value that was set.
C23_Witness ==
    \E c \in Callers, s \in Senders :
        /\ AtReturn(c, "subscribe") /\ calls[c] # <<>> /\ op[c].sender # s
        /\ Subscribed(s, op[c].key)
        /\ written[op[c].key] = 42
        /\ sent[c][op[c].sender] = <<IsNow(op[c].key, 42)>>

(***************************************************************************)
(* C24.  No call changes a timer that has timed out: its state, both       *)
(* remaining times and last_timestamp stay.  No call makes a timer paused  *)
(* that is not paused.  A call that changes the state takes it from Paused *)
(* to Running or from Running to Timeout.                                  *)
(***************************************************************************)
C24_TimeoutAbsorbing ==
    [][/\ timer.timer_state \notin {"Paused", "Running"} => timer' = timer
       /\ timer.timer_state # "Paused" => timer'.timer_state # "Paused"
       /\ timer'.timer_state # timer.timer_state =>
             \/ timer.timer_state = "Paused" /\ timer'.timer_state = "Running"
             \/ /\ timer.timer_state = "Running"
                /\ timer'.timer_state \in {"Timeout(White)", "Timeout(Black)"}
      ]_vars

\* A timer that timed out for White has been called again, with start at
\* another time or with use_time for Black at another time.
C24_Witness ==
    /\ tcall.name # "from"
    /\ tcall.before.timer_state = "Timeout(White)"
    /\ timer.timer_state = "Timeout(White)"
    /\ \/ tcall.name = "start" /\ tcall.start_time # timer.last_timestamp
       \/ /\ tcall.name = "use_time" /\ tcall.player = "Black"
          /\ tcall.now # timer.last_timestamp

(***************************************************************************)
(* C25.  Once start(t0) has set the timer running, in every state the      *)
(* remaining times of both players and the time from t0 to last_timestamp  *)
(* add up to the two budgets.                                              *)
(***************************************************************************)
C25_TimeConserved ==
    /\ started_at = NotStarted <=> timer.timer_state = "Paused"
    /\ started_at # NotStarted =>
          timer.time_left_white + timer.time_left_black
             + (timer.last_timestamp - started_at[1])
          = timer.config.time_budget_white + timer.config.time_budget_black

\* Both players have used time and the timer is running, the last call
\* with a timestamp before the one of the call before it.
C25_Witness ==
    /\ timer.timer_state = "Running"
    /\ tcall.name = "use_time" /\ tcall.before.timer_state = "Running"
    /\ tcall.now < tcall.before.last_timestamp
    /\ timer.time_left_white # timer.config.time_budget_white
    /\ timer.time_left_black # timer.config.time_budget_black

(***************************************************************************)
(* C26.  After apply_action_bang with code c, the call has returned; for c *)
(* in 1..64 the board was given Lift at position c - 1, for c in 65..128   *)
(* Place at position c - 65, and for 0 and 129..255 the board was given no *)
(* action and the call returned -1.  An action given to the board has a    *)
(* position in 0..63, and legal_actions writes c for it.                   *)
(***************************************************************************)
C26_DecodesEveryCode ==
    result # NoResult =>
        /\ result.kind = "return"
        /\ called \in 1..64 => executed = Lift(called - 1)
        /\ called \in 65..128 => executed = Place(called - 65)
        /\ called = 0 \/ called \in 129..255 =>
              executed = NoAction /\ result = Returns(-1)
        /\ executed # NoAction =>
              /\ executed.position \in 0..63
              /\ called = IF executed.kind = "Lift"
                          THEN legal_actions_Lift(executed.position)
                          ELSE legal_actions_Place(executed.position)

====
